---- MODULE Spec2Model ----
(***************************************************************************)
(* Primary/fallback failover of src/app.py: the PRIMARY_DB_UP flag, the    *)
(* sql.log file written by the root logger, the scheduled job              *)
(* check_primary_db, the replay sync_data_from_fallback_to_primary, the    *)
(* before_cursor_execute listener and create_app.                          *)
(*                                                                         *)
(* The data stores are outside the repository.  Each db.session.execute    *)
(* and each commit either returns or raises; which of the two is chosen by *)
(* the environment, call by call.  A text is kept with the number of       *)
(* '%(asctime)s - ' prefixes the logging format has put before it, so the  *)
(* text the replay sends can be compared with the text the listener saw.   *)
(***************************************************************************)
EXTENDS Naturals, Sequences, FiniteSets

\* ---------------------------------------------------------------- bounds
MaxRuns == 3     \* runs of check_primary_db in one behaviour
MaxStmts == 1    \* statements executed by requests in one behaviour
MaxLog == 5      \* lines of sql.log

\* The module's app and one further call of create_app, each with its
\* scheduler; two request threads.
Apps == {1, 2}
Requests == {1, 2}

\* ---------------------------------------------------------------- texts
\* A text: `prefix` copies of the asctime prefix, then the message `kind`
\* (`id` tells the statements of the requests apart, 0 for the others).
Text(k, n) == [prefix |-> 0, kind |-> k, id |-> n]

ProbeStatement == Text("SELECT 1", 0)
MsgDown == Text("Primary database is down", 0)
MsgOnline == Text("Primary database is back online", 0)
MsgSyncOk == Text("Data synchronization successful", 0)
MsgSyncFailed == Text("Data synchronization failed", 0)

StatementKinds == {"write", "read"}
NoParameters == "none"
\* The parameters a request binds: the values of a write, nothing for a read.
ParametersOf(k) == IF k = "write" THEN "bound" ELSE NoParameters

\* What an execute or a commit can do: return, or raise after or before the
\* cursor was reached, with an exception inside or outside SQLAlchemyError.
ExcTypes == {"SQLAlchemyError", "Exception"}
Outcomes ==
  {[cursor |-> TRUE, exc |-> "none"]}
  \cup {[cursor |-> c, exc |-> e] : c \in BOOLEAN, e \in ExcTypes}

VARIABLES
  PRIMARY_DB_UP,   \* the module global
  sql_log,         \* the lines of sql.log, oldest first
  apps,            \* create_app calls so far: apps 1..apps exist, each with a scheduler
  uri,             \* SQLALCHEMY_DATABASE_URI of each app
  pc,              \* where the check_primary_db run of each scheduler is
  exc,             \* the exception the probe of the run raised
  pos,             \* lines of sql.log the replay of the run has read
  txn,             \* what the replay has executed in its open transaction
  snap,            \* lines sql.log had when the replay of the run opened it
  primary,         \* the transactions replays have committed, oldest first
  reqpc,           \* where each request thread is
  req,             \* the execute the thread is in: statement (index in issued), store
  issued,          \* the statements of requests that reached the cursor, in order
  runs,            \* runs of check_primary_db started so far
  committed        \* indexes in issued of the statements that succeeded, in commit order

vars == <<PRIMARY_DB_UP, sql_log, apps, uri, pc, exc, pos, txn, snap, primary,
          reqpc, req, issued, committed, runs>>

monitor_vars == <<pc, exc, pos, txn, snap, primary, runs>>
request_vars == <<reqpc, req, issued, committed>>

\* ---------------------------------------------------------------- logging
\* format='%(asctime)s - %(message)s'
Format(message) == [message EXCEPT !.prefix = @ + 1]

\* A logger that would rewrite the file with each record.
LogRecord_rewrites(log, message) == <<Format(message)>>

\* logging.info / logging.error on the root logger: one formatted line is
\* appended to sql.log (level INFO lets both through).
LogRecord(log, message) == Append(log, Format(message))

\* A listener that would log whatever the flag says.
before_cursor_execute_always(log, up, statement) == LogRecord(log, statement)

\* A listener that would log the mutations only.
before_cursor_execute_mutations_only(log, up, statement) ==
  IF ~up /\ statement.kind = "write" THEN LogRecord(log, statement) ELSE log

\* The listener on the engine: logs the statement, without its parameters,
\* when the flag is down.
before_cursor_execute(log, up, statement) ==
  IF ~up THEN LogRecord(log, statement) ELSE log

\* The listener runs only when the execute got as far as the cursor.
AtCursor(log, up, statement, o) ==
  IF o.cursor THEN before_cursor_execute(log, up, statement) ELSE log

\* except SQLAlchemyError (check_primary_db)
CaughtByCheck(e) == e = "SQLAlchemyError"

\* f.truncate(0)
Truncate(log, size) == SubSeq(log, 1, size)

\* A rollback that would keep what the transaction had executed.
Rollback_partial(store, transaction) ==
  IF transaction = <<>> THEN store ELSE Append(store, transaction)

\* db.session.commit(): the statements of the transaction reach the store
\* together.
Commit(store, transaction) == Append(store, transaction)

\* The app context is left on an exception: the session is removed and its
\* transaction rolled back.
Rollback(store, transaction) == store

\* The store a database URI names.
DatabaseUri(up) == IF up THEN "primary" ELSE "fallback"

NoRequest == [statement |-> 0, store |-> "none"]

\* ---------------------------------------------------------------- Init
Init ==
  /\ PRIMARY_DB_UP = TRUE
  /\ sql_log = <<>>
  /\ apps = 1
  /\ uri = [a \in Apps |-> IF a = 1 THEN DatabaseUri(TRUE) ELSE "none"]
  /\ pc = [m \in Apps |-> "idle"]
  /\ exc = [m \in Apps |-> "none"]
  /\ pos = [m \in Apps |-> 0]
  /\ txn = [m \in Apps |-> <<>>]
  /\ snap = [m \in Apps |-> 0]
  /\ primary = <<>>
  /\ reqpc = [r \in Requests |-> "idle"]
  /\ req = [r \in Requests |-> NoRequest]
  /\ issued = <<>>
  /\ committed = <<>>
  /\ runs = 0

\* ---------------------------------------------------------------- create_app
\* A further call of create_app: the URI is fixed from the flag as it is now,
\* a listener is put on the new engine and a new scheduler is started.
create_app ==
  /\ apps + 1 \in Apps
  /\ apps' = apps + 1
  /\ uri' = [uri EXCEPT ![apps + 1] = DatabaseUri(PRIMARY_DB_UP)]
  /\ UNCHANGED <<PRIMARY_DB_UP, sql_log, monitor_vars, request_vars>>

\* ---------------------------------------------------------------- check_primary_db
\* The scheduler of app m starts its job when the interval has passed and
\* no run of the job is still executing (one instance of a job at a time).
Schedulable(m) == m <= apps /\ pc[m] = "idle"

\* The job starts and executes 'SELECT 1' on the engine of the module's app.
Probe(m, o) ==
  /\ Schedulable(m)
  /\ runs' = runs + 1
  /\ sql_log' = AtCursor(sql_log, PRIMARY_DB_UP, ProbeStatement, o)
  /\ exc' = [exc EXCEPT ![m] = o.exc]
  /\ pc' = [pc EXCEPT ![m] = IF o.exc = "none" THEN "probed" ELSE "raising"]
  /\ UNCHANGED <<PRIMARY_DB_UP, apps, uri, pos, txn, snap, primary, request_vars>>

\* The probe raised.  The except clause tests the flag and logs the error
\* when it is up; an exception the clause does not catch leaves the function.
ProbeRaised(m) ==
  /\ pc[m] = "raising"
  /\ IF CaughtByCheck(exc[m])
       THEN /\ sql_log' = IF PRIMARY_DB_UP THEN LogRecord(sql_log, MsgDown) ELSE sql_log
            /\ pc' = [pc EXCEPT ![m] = IF PRIMARY_DB_UP THEN "down_logged" ELSE "down_silent"]
       ELSE /\ pc' = [pc EXCEPT ![m] = "idle"]
            /\ UNCHANGED sql_log
  /\ exc' = [exc EXCEPT ![m] = "none"]
  /\ UNCHANGED <<PRIMARY_DB_UP, apps, uri, pos, txn, snap, primary, request_vars, runs>>

\* The last statement of the except clause: PRIMARY_DB_UP = False, return.
PrimaryDown(m) ==
  /\ pc[m] \in {"down_logged", "down_silent"}
  /\ PRIMARY_DB_UP' = FALSE
  /\ pc' = [pc EXCEPT ![m] = "idle"]
  /\ UNCHANGED <<sql_log, apps, uri, exc, pos, txn, snap, primary, request_vars, runs>>

\* The probe returned and `if not PRIMARY_DB_UP` finds the flag up: the
\* replay is skipped.
ProbedUp(m) ==
  /\ pc[m] = "probed"
  /\ PRIMARY_DB_UP
  /\ pc' = [pc EXCEPT ![m] = "up"]
  /\ UNCHANGED <<PRIMARY_DB_UP, sql_log, apps, uri, exc, pos, txn, snap, primary,
                 request_vars, runs>>

\* The probe returned and the flag is down: the message, then the replay
\* opens sql.log.
ProbedDown(m) ==
  /\ pc[m] = "probed"
  /\ ~PRIMARY_DB_UP
  /\ sql_log' = LogRecord(sql_log, MsgOnline)
  /\ pos' = [pos EXCEPT ![m] = 0]
  /\ snap' = [snap EXCEPT ![m] = Len(sql_log')]
  /\ pc' = [pc EXCEPT ![m] = "sync_read"]
  /\ UNCHANGED <<PRIMARY_DB_UP, apps, uri, exc, txn, primary, request_vars, runs>>

\* After the test of the flag, and after the replay returned, whichever
\* way: PRIMARY_DB_UP = True, return.
Finish(m) ==
  /\ pc[m] \in {"up", "synced", "sync_failed"}
  /\ PRIMARY_DB_UP' = TRUE
  /\ pc' = [pc EXCEPT ![m] = "idle"]
  /\ txn' = [txn EXCEPT ![m] = <<>>]
  /\ pos' = [pos EXCEPT ![m] = 0]
  /\ snap' = [snap EXCEPT ![m] = 0]
  /\ UNCHANGED <<sql_log, apps, uri, exc, primary, request_vars, runs>>

\* ---------------------------------------------------------------- sync_data_from_fallback_to_primary
\* except Exception: the session is rolled back when the context is left,
\* the failure is logged and the function returns.
SyncFailed(m, log) ==
  /\ sql_log' = LogRecord(log, MsgSyncFailed)
  /\ primary' = Rollback(primary, txn[m])
  /\ txn' = [txn EXCEPT ![m] = <<>>]
  /\ pc' = [pc EXCEPT ![m] = "sync_failed"]
  /\ UNCHANGED pos

\* One turn of `for line in f`: the next line is read and executed, as it
\* stands and with no parameters, on the engine of the module's app.
SyncExecute(m, o) ==
  /\ pc[m] = "sync_read"
  /\ pos[m] < Len(sql_log)
  /\ LET line == sql_log[pos[m] + 1]
         log == AtCursor(sql_log, PRIMARY_DB_UP, line, o)
     IN IF o.exc = "none"
          THEN /\ sql_log' = log
               /\ pos' = [pos EXCEPT ![m] = @ + 1]
               /\ txn' = [txn EXCEPT ![m] =
                            Append(@, [statement |-> line, parameters |-> NoParameters])]
               /\ UNCHANGED <<pc, primary>>
          ELSE SyncFailed(m, log)
  /\ UNCHANGED <<PRIMARY_DB_UP, apps, uri, exc, snap, request_vars, runs>>

\* The file is at its end: db.session.commit().
SyncCommit(m, ok) ==
  /\ pc[m] = "sync_read"
  /\ pos[m] >= Len(sql_log)
  /\ IF ok
       THEN /\ primary' = Commit(primary, txn[m])
            /\ pc' = [pc EXCEPT ![m] = "sync_truncate"]
            /\ UNCHANGED <<sql_log, pos, txn>>
       ELSE SyncFailed(m, sql_log)
  /\ UNCHANGED <<PRIMARY_DB_UP, apps, uri, exc, snap, request_vars, runs>>

\* f.truncate(0), the file is closed, and the success is logged.
SyncTruncate(m) ==
  /\ pc[m] = "sync_truncate"
  /\ sql_log' = LogRecord(Truncate(sql_log, 0), MsgSyncOk)
  /\ pc' = [pc EXCEPT ![m] = "synced"]
  /\ UNCHANGED <<PRIMARY_DB_UP, apps, uri, exc, pos, txn, snap, primary, request_vars, runs>>

\* ---------------------------------------------------------------- requests
\* A request thread executes a statement on the engine of app a and the
\* cursor is reached: the listener of that engine runs.  (An execute that
\* fails before the cursor changes nothing: it is a stuttering step.)
RequestExecute(r, a, k) ==
  /\ reqpc[r] = "idle"
  /\ a <= apps
  /\ LET n == Len(issued) + 1
     IN /\ issued' = Append(issued, [statement |-> Text(k, n),
                                      parameters |-> ParametersOf(k),
                                      up |-> PRIMARY_DB_UP])
        /\ sql_log' = before_cursor_execute(sql_log, PRIMARY_DB_UP, Text(k, n))
              /\ req' = [req EXCEPT ![r] = [statement |-> n, store |-> uri[a]]]
  /\ reqpc' = [reqpc EXCEPT ![r] = "cursor"]
  /\ UNCHANGED <<PRIMARY_DB_UP, apps, uri, monitor_vars, committed>>

\* The statement returns and is committed, or raises.
RequestResult(r, ok) ==
  /\ reqpc[r] = "cursor"
  /\ committed' = IF ok THEN Append(committed, req[r].statement) ELSE committed
  /\ reqpc' = [reqpc EXCEPT ![r] = "idle"]
  /\ req' = [req EXCEPT ![r] = NoRequest]
  /\ UNCHANGED <<PRIMARY_DB_UP, sql_log, apps, uri, monitor_vars, issued>>

\* ---------------------------------------------------------------- specification
\* A behaviour is explored up to R runs of check_primary_db, S statements
\* of requests and L lines of sql.log.
RunsBelow(R) == runs < R
StatementsBelow(S) == Len(issued) < S
LogWithin(L) == Len(sql_log') <= L

\* The request threads are interchangeable: a thread takes a request only
\* when the threads before it are busy.
NextThread(r) == \A q \in Requests : q < r => reqpc[q] # "idle"

\* Requests one after the other, on one thread.
Next ==
  \/ create_app
  \/ \E m \in Apps, o \in Outcomes : RunsBelow(MaxRuns) /\ Probe(m, o) /\ LogWithin(MaxLog)
  \/ \E m \in Apps : ProbeRaised(m) /\ LogWithin(MaxLog)
  \/ \E m \in Apps : PrimaryDown(m)
  \/ \E m \in Apps : ProbedUp(m)
  \/ \E m \in Apps : ProbedDown(m) /\ LogWithin(MaxLog)
  \/ \E m \in Apps, o \in Outcomes : SyncExecute(m, o) /\ LogWithin(MaxLog)
  \/ \E m \in Apps, ok \in BOOLEAN : SyncCommit(m, ok) /\ LogWithin(MaxLog)
  \/ \E m \in Apps : SyncTruncate(m)
  \/ \E m \in Apps : Finish(m)
  \/ \E a \in Apps, k \in StatementKinds :
       StatementsBelow(MaxStmts) /\ RequestExecute(1, a, k) /\ LogWithin(MaxLog)
  \/ \E ok \in BOOLEAN : RequestResult(1, ok)

Spec == Init /\ [][Next]_vars

\* The same steps explored to two statements, so that two request threads
\* execute at the same time.
ConcurrentRuns == 3
ConcurrentStmts == 2
ConcurrentLog == 5

NextConcurrent ==
  \/ create_app
  \/ \E m \in Apps, o \in Outcomes :
       RunsBelow(ConcurrentRuns) /\ Probe(m, o) /\ LogWithin(ConcurrentLog)
  \/ \E m \in Apps : ProbeRaised(m) /\ LogWithin(ConcurrentLog)
  \/ \E m \in Apps : PrimaryDown(m)
  \/ \E m \in Apps : ProbedUp(m)
  \/ \E m \in Apps : ProbedDown(m) /\ LogWithin(ConcurrentLog)
  \/ \E m \in Apps, o \in Outcomes : SyncExecute(m, o) /\ LogWithin(ConcurrentLog)
  \/ \E m \in Apps, ok \in BOOLEAN : SyncCommit(m, ok) /\ LogWithin(ConcurrentLog)
  \/ \E m \in Apps : SyncTruncate(m)
  \/ \E m \in Apps : Finish(m)
  \/ \E r \in Requests, a \in Apps, k \in StatementKinds :
       /\ StatementsBelow(ConcurrentStmts) /\ NextThread(r)
       /\ RequestExecute(r, a, k) /\ LogWithin(ConcurrentLog)
  \/ \E r \in Requests, ok \in BOOLEAN : RequestResult(r, ok)

SpecConcurrent == Init /\ [][NextConcurrent]_vars

\* The same steps with one request thread that executes mutations only,
\* explored to three statements: the recovery scenario.
RecoveryRuns == 3
RecoveryStmts == 3
RecoveryLog == 7

NextRecovery ==
  \/ create_app
  \/ \E m \in Apps, o \in Outcomes : RunsBelow(RecoveryRuns) /\ Probe(m, o) /\ LogWithin(RecoveryLog)
  \/ \E m \in Apps : ProbeRaised(m) /\ LogWithin(RecoveryLog)
  \/ \E m \in Apps : PrimaryDown(m)
  \/ \E m \in Apps : ProbedUp(m)
  \/ \E m \in Apps : ProbedDown(m) /\ LogWithin(RecoveryLog)
  \/ \E m \in Apps, o \in Outcomes : SyncExecute(m, o) /\ LogWithin(RecoveryLog)
  \/ \E m \in Apps, ok \in BOOLEAN : SyncCommit(m, ok) /\ LogWithin(RecoveryLog)
  \/ \E m \in Apps : SyncTruncate(m)
  \/ \E m \in Apps : Finish(m)
  \/ \E a \in Apps :
       StatementsBelow(RecoveryStmts) /\ RequestExecute(1, a, "write") /\ LogWithin(RecoveryLog)
  \/ \E ok \in BOOLEAN : RequestResult(1, ok)

SpecRecovery == Init /\ [][NextRecovery]_vars

\* The same again, explored to four runs and one statement: a write that
\* arrives while a replay is between its last read and its truncate.
ReplayRuns == 4
ReplayStmts == 1
ReplayLog == 7

NextReplay ==
  \/ create_app
  \/ \E m \in Apps, o \in Outcomes : RunsBelow(ReplayRuns) /\ Probe(m, o) /\ LogWithin(ReplayLog)
  \/ \E m \in Apps : ProbeRaised(m) /\ LogWithin(ReplayLog)
  \/ \E m \in Apps : PrimaryDown(m)
  \/ \E m \in Apps : ProbedUp(m)
  \/ \E m \in Apps : ProbedDown(m) /\ LogWithin(ReplayLog)
  \/ \E m \in Apps, o \in Outcomes : SyncExecute(m, o) /\ LogWithin(ReplayLog)
  \/ \E m \in Apps, ok \in BOOLEAN : SyncCommit(m, ok) /\ LogWithin(ReplayLog)
  \/ \E m \in Apps : SyncTruncate(m)
  \/ \E m \in Apps : Finish(m)
  \/ \E a \in Apps :
       StatementsBelow(ReplayStmts) /\ RequestExecute(1, a, "write") /\ LogWithin(ReplayLog)
  \/ \E ok \in BOOLEAN : RequestResult(1, ok)

SpecReplay == Init /\ [][NextReplay]_vars

\* ---------------------------------------------------------------- claims
\* The entries of sql.log that the listener wrote for statements of requests.
IsRequestEntry(line) == line.prefix = 1 /\ line.kind \in StatementKinds
InFlight(n) == \E r \in Requests : reqpc[r] = "cursor" /\ req[r].statement = n
Range(seq) == {seq[i] : i \in DOMAIN seq}
Ids(lines) == [i \in DOMAIN lines |-> lines[i].id]
DuringFallback(n) == ~issued[n].up
\* No replay has truncated sql.log: a truncate leaves the success message first.
NeverCleared == \A i \in DOMAIN sql_log : sql_log[i] # Format(MsgSyncOk)

\* C1: when the replay fails, PRIMARY_DB_UP is still False when
\* check_primary_db returns (so that the next run replays again).
C1_FailedReplayStaysFallback ==
  [][\A m \in Apps :
       (pc[m] = "sync_failed" /\ pc'[m] = "idle") => PRIMARY_DB_UP' = FALSE]_vars

\* C2: the step in which a statement (or the commit) of the replay fails
\* leaves sql.log exactly as it was: nothing removed, added or reordered.
C2_FailedReplayLeavesLog ==
  [][\A m \in Apps :
       (pc[m] = "sync_read" /\ pc'[m] = "sync_failed") => sql_log' = sql_log]_vars

\* C3: when a successful replay clears the log, the statements of requests
\* that were appended after its last read, and so were not executed by
\* it, are still in the log.
C3_UnreadWritesSurviveClear ==
  [][\A m \in Apps :
       (pc[m] = "sync_truncate" /\ pc'[m] = "synced") =>
         \A i \in (pos[m] + 1)..Len(sql_log) :
           IsRequestEntry(sql_log[i]) => sql_log[i] \in Range(sql_log')]_vars

\* C4: as long as no replay has cleared the log, the statements of requests
\* that succeeded while PRIMARY_DB_UP was False are the entries of the log
\* for committed statements, in the order in which they committed.
C4_LoggedInCommitOrder ==
  NeverCleared =>
    Ids(SelectSeq(sql_log, LAMBDA line : IsRequestEntry(line) /\ line.id \in Range(committed)))
      = SelectSeq(committed, DuringFallback)

\* The recovery scenario: one app, one run whose probe failed, then three
\* writes W1, W2, W3 that succeeded while PRIMARY_DB_UP was False.
ThreeWritesInOutage ==
  /\ apps = 1
  /\ Len(issued) = 3
  /\ \A n \in DOMAIN issued : issued[n].statement.kind = "write" /\ ~issued[n].up
  /\ committed = <<1, 2, 3>>
  /\ reqpc[1] = "idle"
Executed(n) == [statement |-> issued[n].statement, parameters |-> issued[n].parameters]

\* C5: after the failed probe and the three writes the log is exactly
\* [W1, W2, W3]; when the replay of the next run has returned, the primary
\* was sent W1, W2, W3 in that order in one committed transaction and the
\* log is empty (PRIMARY_DB_UP is then set True).
WritesBeforeReplay ==
  \A i, j \in DOMAIN sql_log :
    (IsRequestEntry(sql_log[i]) /\ sql_log[j] = Format(MsgOnline)) => i < j
C5_AfterThreeWrites ==
  (ThreeWritesInOutage /\ runs = 1 /\ pc[1] = "idle") =>
    sql_log = [n \in 1..3 |-> Format(issued[n].statement)]
C5_AfterReplay ==
  (ThreeWritesInOutage /\ WritesBeforeReplay /\ runs = 2
     /\ pc[1] \in {"synced", "sync_failed"}) =>
    /\ pc[1] = "synced"
    /\ txn[1] = [n \in 1..3 |-> Executed(n)]
    /\ sql_log = <<>>
C5_RecoveryScenario == C5_AfterThreeWrites /\ C5_AfterReplay

\* C6: every statement of a request executes on the store that
\* PRIMARY_DB_UP designated when it was executed.
C6_ExecutesOnDesignatedStore ==
  \A r \in Requests :
    reqpc[r] = "cursor" => req[r].store = DatabaseUri(issued[req[r].statement].up)

\* C7: every entry of the log whose statement has finished executing
\* belongs to a statement that committed.
C7_OnlyCommittedLogged ==
  \A i \in DOMAIN sql_log :
    (IsRequestEntry(sql_log[i]) /\ ~InFlight(sql_log[i].id))
      => sql_log[i].id \in Range(committed)

\* The step in which the listener runs for a statement of request thread r.
ListenerStep(r) == reqpc[r] = "idle" /\ reqpc'[r] = "cursor"
Listened == issued'[Len(issued')].statement

C9_AnyProbeExceptionIsFailedProbe ==
  [][\A m \in Apps :
       (pc[m] = "raising" /\ pc'[m] = "idle") =>
         (PRIMARY_DB_UP' = FALSE /\ CaughtByCheck(exc[m]))]_vars

\* C10: what the replay executes for an entry of a request has the text and
\* the parameters the request executed.
C10_ReplayedAsExecuted ==
  \A m \in Apps : \A i \in DOMAIN txn[m] :
    LET e == txn[m][i]
    IN (e.statement.kind \in StatementKinds /\ e.statement.id \in DOMAIN issued) =>
         /\ e.statement = issued[e.statement.id].statement
         /\ e.parameters = issued[e.statement.id].parameters

\* The steps of a run of check_primary_db of scheduler m.
Returns(m) == pc[m] # "idle" /\ pc'[m] = "idle"
ProbeFailed(m) == pc[m] \in {"raising", "down_logged", "down_silent"}
ReplayReturned(m) == pc[m] \in {"synced", "sync_failed"}
InReplay(m) == pc[m] \in {"sync_read", "sync_truncate"}

\* C11: a run whose probe failed returns with PRIMARY_DB_UP False (so the
\* first failed probe makes the change to False and the later ones leave
\* it False), and PRIMARY_DB_UP changes only there, from True to False, and
\* at the return of a run whose replay has returned, from False to True.
C11_OneChangeEachWay ==
  [][/\ \A m \in Apps : (ProbeFailed(m) /\ Returns(m)) => PRIMARY_DB_UP' = FALSE
     /\ (PRIMARY_DB_UP /\ ~PRIMARY_DB_UP') => \E m \in Apps : ProbeFailed(m) /\ Returns(m)
     /\ (~PRIMARY_DB_UP /\ PRIMARY_DB_UP') => \E m \in Apps : ReplayReturned(m) /\ Returns(m)]_vars

\* C12: while the replay of a scheduler is in progress, the scheduler can
\* still start the next probe of check_primary_db.
C12_ReplayDoesNotStallProbes ==
  \A m \in Apps : (m <= apps /\ InReplay(m)) => Schedulable(m)

\* C13: a run logs 'Primary database is down' exactly when it is the run
\* that changes PRIMARY_DB_UP from True to False.
C13_DownLoggedOnTheEdgeOnly ==
  [][\A m \in Apps :
       (pc[m] \in {"down_logged", "down_silent"} /\ Returns(m)) =>
         ((pc[m] = "down_logged") <=> (PRIMARY_DB_UP /\ ~PRIMARY_DB_UP'))]_vars

\* C14: a replay that fails commits nothing of what it had executed, a
\* replay whose statements all succeeded commits every line it read in one
\* transaction, and nothing else of a replay reaches the primary.
C14_ReplayIsAtomic ==
  [][/\ \A m \in Apps :
          /\ (pc[m] = "sync_read" /\ pc'[m] = "sync_failed") => primary' = primary
          /\ (pc[m] = "sync_read" /\ pc'[m] = "sync_truncate") =>
               (primary' = Append(primary, txn[m]) /\ Len(txn[m]) = pos[m])
     /\ primary' # primary =>
          \E m \in Apps : pc[m] = "sync_read" /\ pc'[m] = "sync_truncate"]_vars

\* A replay has failed after it had executed a line, and the primary holds
\* no transaction of a replay.
C14_Witness ==
  \E m \in Apps : pc[m] = "sync_failed" /\ pos[m] >= 1 /\ primary = <<>>

IsPrefix(s, t) == Len(s) <= Len(t) /\ SubSeq(t, 1, Len(s)) = s

\* C15: every step that removes or rewrites lines of sql.log is the
\* truncate of a replay that has executed every line it read and whose
\* commit succeeded; every other step leaves the lines there are in place.
C15_ClearedOnlyAfterCommit ==
  [][~IsPrefix(sql_log, sql_log') =>
       \E m \in Apps :
         /\ pc[m] = "sync_truncate" /\ pc'[m] = "synced"
         /\ Len(txn[m]) = pos[m]
         /\ txn[m] \in Range(primary)]_vars

\* A replay has truncated sql.log: lines were removed and the file begins
\* with the success message.
C15_Witness ==
  \E m \in Apps :
    /\ pc[m] = "synced" /\ pos[m] >= 1
    /\ sql_log # <<>> /\ sql_log[1] = Format(MsgSyncOk)

\* C16: a replay executes only the lines sql.log had when it opened the
\* file (so it has finitely many lines to execute).
C16_ReplayExecutesSnapshotOnly ==
  \A m \in Apps : InReplay(m) => pos[m] <= snap[m]

\* C17: the line a replay is about to read and execute is the statement of
\* a request that was executed while PRIMARY_DB_UP was False.
C17_ReplayReadsRequestStatementsOnly ==
  \A m \in Apps :
    (pc[m] = "sync_read" /\ pos[m] < Len(sql_log)) =>
      LET line == sql_log[pos[m] + 1]
      IN IsRequestEntry(line) /\ line.id \in DOMAIN issued /\ DuringFallback(line.id)

\* C18: when PRIMARY_DB_UP changes from False to True, no statement of a
\* request is in sql.log.
C18_NoStatementLeftWhenPrimary ==
  [][(~PRIMARY_DB_UP /\ PRIMARY_DB_UP') =>
       \A i \in DOMAIN sql_log' : ~IsRequestEntry(sql_log'[i])]_vars

\* C19: while PRIMARY_DB_UP is True, a statement that reaches the cursor
\* (of a request, of the probe or of a replay) leaves sql.log unchanged.
C19_PrimaryLeavesLogUnchanged ==
  [][PRIMARY_DB_UP =>
       /\ \A r \in Requests : ListenerStep(r) => sql_log' = sql_log
       /\ \A m \in Apps :
            /\ (pc[m] = "idle" /\ pc'[m] \in {"probed", "raising"}) => sql_log' = sql_log
            /\ (pc[m] = "sync_read" /\ pos'[m] = pos[m] + 1) => sql_log' = sql_log]_vars

\* A request executed a statement while PRIMARY_DB_UP was True and sql.log
\* held lines, and the statement is not in the file.
C19_Witness ==
  \E n \in DOMAIN issued :
    /\ issued[n].up
    /\ sql_log # <<>>
    /\ \A i \in DOMAIN sql_log : sql_log[i].id # n

\* C20: at most one run of check_primary_db, and so at most one replay, is
\* executing at any time, however many times create_app was called.
C20_OneMonitorRunAtATime ==
  Cardinality({m \in Apps : pc[m] # "idle"}) <= 1

====
